---- MODULE Spec2Model ----
(***************************************************************************)
(* The RAG backend of msft-basic-rag: the in-memory conversation store,    *)
(* the POST /query handler of the Azure-AI-Inference backend               *)
(* (src/BE/main.py) and of the Agent-Framework backend                     *)
(* (src/BE/main_agent_framework.py), and the DELETE / GET                  *)
(* /conversation/{session_id} handlers both backends share.                *)
(*                                                                         *)
(* Texts are TLA+ strings; TLC evaluates \o, Len and SubSeq on them, so a  *)
(* Python slice or f-string is computed character by character.            *)
(*                                                                         *)
(* A handler of main.py holds no await: the event loop runs it from its    *)
(* first line to its response without interleaving, so it is one action.   *)
(* The query handler of main_agent_framework.py awaits agent.run(): it is  *)
(* two actions, QueryStart (up to the await) and QueryFinish (after it).   *)
(*                                                                         *)
(* The ingestion script (src/ingestion/ingest.py) is a process of its own: *)
(* one run of main(), a step per call it makes to the search service or    *)
(* the file system.                                                        *)
(***************************************************************************)
EXTENDS Integers, Sequences, FiniteSets, TLC

\* ------------------------------------------------------------------ bounds

\* main.py answers a query while the list objects hold at most MaxExchanges
\* exchanges (two turns each) in all.
MaxExchanges == 3

\* Requests of the Agent-Framework backend suspended at the await at one time.
MaxInflight == 2

\* The Agent-Framework backend takes a query while the exchanges held in memory
\* and the suspended requests are fewer than MaxAgentExchanges.
MaxAgentExchanges == 2

\* The *.txt files the Data directory holds at most.
MaxFiles == 2

\* ------------------------------------------------------- program constants

\* conversation_history[-5:]
HISTORY_WINDOW == 5

\* result.get("content", "")[:200]
SOURCE_PREVIEW == 200

\* QueryRequest.max_results default
DEFAULT_MAX_RESULTS == 3

SYSTEM_INSTRUCTION ==
    "You are a helpful AI assistant. Answer the user's question based on the provided context. "
    \o "If the context doesn't contain relevant information, say so politely. "
    \o "Keep your answers clear and concise."

NO_DOCUMENTS == "No relevant documents found."

SEARCH_NOT_CONFIGURED == "Azure Search client not configured"

OPENAI_NOT_CONFIGURED == "Azure OpenAI client not configured"

ERROR_PREFIX == "Error processing query: "

AGENT_INIT_FAILED ==
    "Failed to initialize Agent Framework client. Please ensure AZURE_OPENAI_ENDPOINT and either "
    \o "AZURE_OPENAI_API_KEY or Azure CLI credentials are set. If using Azure CLI, ensure you've "
    \o "run 'az login'. Error: "

\* ------------------------------------------------------------ input domains

\* QueryRequest.session_id: a string, or left out of the request body.
Omitted == "<omitted>"

\* The session ids requests use, in the order list objects are numbered by.
SessionOrder == <<"default", "s1">>

Sessions == {SessionOrder[i] : i \in 1 .. Len(SessionOrder)}

SessionArgs == {Omitted, "s1"}

Queries == {"q1", "q2"}

\* What the completion service may answer.
Answers == {"a1"}

\* str(e) of an exception raised by the search or the completion service.
ExcTexts == {"timeout"}

\* QueryRequest.max_results: left out, or given.
MaxResultsArgs == {Omitted, "1"}

Min(a, b) == IF a < b THEN a ELSE b

Max(a, b) == IF a > b THEN a ELSE b

RECURSIVE Rep(_, _)
\* n copies of the text c
Rep(c, n) == IF n = 0 THEN "" ELSE c \o Rep(c, n - 1)

\* The documents of the search index: a hit is a mapping that may lack a field.
DocShort == [filename |-> "doc1.txt", content |-> "Azure AI Search is a cloud search service."]

DocLong == [filename |-> "doc2.txt", content |-> Rep("x", SOURCE_PREVIEW) \o "y"]

DocBare == [id |-> "doc3"]

Docs == {DocShort, DocLong, DocBare}

\* ------------------------------------------------------------------- state

VARIABLES
    backend,        \* which server module runs: "inference" (main.py) or "agent"
    env,            \* which credentials the environment holds
    conversations,  \* the dict conversations: session id -> list object (its id)
    lists,          \* the list objects: id -> sequence of turns
    inflight,       \* agent backend: the requests suspended at await agent.run()
    request,        \* the request this step worked on
    response,       \* the HTTP response this step returned (op "none": none)
    sent,           \* the messages this step handed to the completion service
    searched,       \* whether this step called search_client.search
    found,          \* the hits the search of this step returned
    failed,         \* the external call that raised in this step ("": none)
    ingest          \* the run of ingest.py: where main() is, what it read, called, printed

vars == <<backend, env, conversations, lists, inflight,
          request, response, sent, searched, found, failed, ingest>>

ListIds == 1 .. (Cardinality(Sessions) + MaxInflight)

\* search_client is not None
search_client == env.search_endpoint /\ env.search_key

\* openai_client is not None
openai_client == env.openai_endpoint /\ env.openai_key

\* ---------------------------------------------------------- pure functions

\* seq[-n:]
LastN(seq, n) == SubSeq(seq, Max(1, Len(seq) - n + 1), Len(seq))

\* text[:n]
FirstN(text, n) == SubSeq(text, 1, Min(n, Len(text)))

\* mapping.get(key, default)
Get(mapping, key, default) == IF key \in DOMAIN mapping THEN mapping[key] ELSE default

RECURSIVE Join(_, _)
\* sep.join(texts)
Join(sep, texts) ==
    IF texts = <<>> THEN ""
    ELSE IF Len(texts) = 1 THEN texts[1]
    ELSE texts[1] \o sep \o Join(sep, Tail(texts))

\* request.session_id
SessionId(arg) == IF arg = Omitted THEN "default" ELSE arg

\* request.max_results
TopOf(arg) == IF arg = Omitted THEN DEFAULT_MAX_RESULTS ELSE 1

\* The rankings the index can return for top = n: at most n distinct documents.
SearchResults(n) ==
    {<<>>, <<DocShort>>, <<DocLong>>}
    \cup (IF n >= 2 THEN {<<DocShort, DocBare>>, <<DocLong, DocShort>>} ELSE {})

\* The rankings the Agent-Framework backend is run against.
AgentResults == {<<DocShort>>}

\* contexts, as the loop over search_results builds it
Contexts(hits) == [i \in 1 .. Len(hits) |-> Get(hits[i], "content", "")]

\* Sources with the ellipsis put only after a content that was cut.
SourcesEllipsisWhenCut(hits) ==
    [i \in 1 .. Len(hits) |->
        [filename |-> Get(hits[i], "filename", "Unknown"),
         content  |-> IF Len(Get(hits[i], "content", "")) > SOURCE_PREVIEW
                      THEN FirstN(Get(hits[i], "content", ""), SOURCE_PREVIEW) \o "..."
                      ELSE Get(hits[i], "content", "")]]

\* sources, as the loop over search_results builds it
Sources(hits) ==
    [i \in 1 .. Len(hits) |->
        [filename |-> Get(hits[i], "filename", "Unknown"),
         content  |-> FirstN(Get(hits[i], "content", ""), SOURCE_PREVIEW) \o "..."]]

\* ContextStr without the text that stands for no hits.
ContextStrNoFallback(hits) == Join("\n\n", Contexts(hits))

\* context_str
ContextStr(hits) ==
    IF Contexts(hits) # <<>> THEN Join("\n\n", Contexts(hits)) ELSE NO_DOCUMENTS

\* the history turns that go into the prompt
Window(history) == LastN(history, HISTORY_WINDOW)

\* HistoryMessage with an assistant turn sent as a user message, unprefixed.
HistoryMessageUnmarked(msg) == [role |-> "user", content |-> msg.content]

\* one history turn as a message of the Azure AI Inference API
HistoryMessage(msg) ==
    IF msg.role = "user"
    THEN [role |-> "user", content |-> msg.content]
    ELSE [role |-> "system", content |-> "Assistant: " \o msg.content]

\* user_message
UserMessage(context_str, query) ==
    "Context:\n" \o context_str \o "\n\nQuestion: " \o query

\* messages, as main.py hands them to openai_client.complete
BuildMessages(history, context_str, query) ==
    <<[role |-> "system", content |-> SYSTEM_INSTRUCTION]>>
    \o [i \in 1 .. Len(Window(history)) |-> HistoryMessage(Window(history)[i])]
    \o <<[role |-> "user", content |-> UserMessage(context_str, query)]>>

\* ------------------------------------------------------ conversation store

\* The references to list objects, the dict's first (by session), then the
\* suspended requests' (by arrival).
Refs(convs, infl) ==
    LET held == SelectSeq(SessionOrder, LAMBDA s : s \in DOMAIN convs)
    IN  [i \in 1 .. Len(held) |-> convs[held[i]]] \o [i \in 1 .. Len(infl) |-> infl[i].ref]

\* The list objects something still refers to.
Referenced(convs, infl) == {Refs(convs, infl)[i] : i \in 1 .. Len(Refs(convs, infl))}

\* The three variables of the store after a handler left them as convs, heap,
\* infl. A list object is named by its place among the referenced objects, so
\* that one heap has one representation; an object nothing refers to is gone.
Commit(convs, heap, infl) ==
    \E refs \in {Refs(convs, infl)} :
    \E firsts \in {{i \in 1 .. Len(refs) : \A j \in 1 .. i - 1 : refs[j] # refs[i]}} :
    \E name \in {[id \in {refs[i] : i \in firsts} |->
                    Cardinality({j \in firsts : \E i \in firsts : refs[i] = id /\ j <= i})]} :
        /\ conversations' = [s \in DOMAIN convs |-> name[convs[s]]]
        /\ inflight' = [i \in 1 .. Len(infl) |-> [infl[i] EXCEPT !.ref = name[infl[i].ref]]]
        /\ lists' = [n \in ListIds |->
                        IF \E id \in DOMAIN name : name[id] = n
                        THEN heap[CHOOSE id \in DOMAIN name : name[id] = n]
                        ELSE <<>>]

\* The id a newly built list object gets.
FreshId(convs, infl) == CHOOSE id \in ListIds : id \notin Referenced(convs, infl)

\* if request.session_id not in conversations: conversations[request.session_id] = []
GetOrCreate(convs, infl, sid) ==
    IF sid \in DOMAIN convs THEN convs
    ELSE [s \in DOMAIN convs \cup {sid} |->
             IF s = sid THEN FreshId(convs, infl) ELSE convs[s]]

\* Exchange with the answer appended before the question.
ExchangeSwapped(query, answer) ==
    <<[role |-> "assistant", content |-> answer],
      [role |-> "user", content |-> query]>>

\* the two appends to conversation_history
Exchange(query, answer) ==
    <<[role |-> "user", content |-> query],
      [role |-> "assistant", content |-> answer]>>

\* conversations.get(session_id, [])
Read(convs, heap, sid) == IF sid \in DOMAIN convs THEN heap[convs[sid]] ELSE <<>>

\* What GET /conversation/{sid} would return in this state.
Stored(sid) == Read(conversations, lists, sid)

RECURSIVE TurnsIn(_, _)
\* The turns the list objects 1 .. n of heap hold.
TurnsIn(heap, n) == IF n = 0 THEN 0 ELSE Len(heap[n]) + TurnsIn(heap, n - 1)

\* The turns held in memory.
TotalTurns == TurnsIn(lists, Cardinality(Sessions) + MaxInflight)

\* ------------------------------------------------------------- responses

NoResponse ==
    [op |-> "none", status |-> 0, session_id |-> "", detail |-> "", answer |-> "",
     sources |-> <<>>, messages |-> <<>>, message |-> "", health |-> [status |-> ""]]

\* raise HTTPException(status_code=500, detail=...)
Error500(sid, detail) ==
    [NoResponse EXCEPT !.op = "query", !.status = 500, !.session_id = sid, !.detail = detail]

\* return QueryResponse(answer=..., sources=..., session_id=...)
QueryResponse(sid, answer, sources) ==
    [NoResponse EXCEPT !.op = "query", !.status = 200, !.session_id = sid,
                       !.answer = answer, !.sources = sources]

\* What a step shows of itself: the request, the response, the calls it made.
Observe(req, resp, msgs, didSearch, hits, raised) ==
    /\ request' = req
    /\ response' = resp
    /\ sent' = msgs
    /\ searched' = didSearch
    /\ found' = hits
    /\ failed' = raised

\* QueryRequest, as pydantic parses the body
QueryRequest(sarg, query) ==
    [session_id |-> SessionId(sarg), query |-> query, given |-> sarg]

\* the path parameter of DELETE and GET /conversation/{session_id}
PathRequest(sid) == [session_id |-> sid, query |-> ""]

\* ------------------------------------------------------------------ init

Envs == [search_endpoint : BOOLEAN, search_key : BOOLEAN,
         openai_endpoint : BOOLEAN, openai_key : BOOLEAN]

InitStore ==
    /\ conversations = << >>
    /\ lists = [id \in ListIds |-> <<>>]
    /\ inflight = << >>
    /\ request = PathRequest("")
    /\ response = NoResponse
    /\ sent = <<>>
    /\ searched = FALSE
    /\ found = <<>>
    /\ failed = ""

\* No run of ingest.py: the state of the variable ingest in a backend process.
NotIngesting == [pc |-> "none", data |-> <<>>, documents |-> <<>>, calls |-> <<>>, printed |-> <<>>]

Init == backend = "inference" /\ env \in Envs /\ InitStore /\ ingest = NotIngesting

\* ------------------------------------------- main.py: POST /query (atomic)

\* if not search_client / if not openai_client: rejected before the try block
QueryUnconfigured(req) ==
    /\ ~(search_client /\ openai_client)
    /\ Observe(req,
               Error500(req.session_id, IF ~search_client THEN SEARCH_NOT_CONFIGURED
                                        ELSE OPENAI_NOT_CONFIGURED),
               <<>>, FALSE, <<>>, "")
    /\ UNCHANGED <<conversations, lists, inflight>>

\* QuerySearchFails with the session's entry created before the search.
QuerySearchFailsAfterCreate(req, e) ==
    /\ search_client /\ openai_client
    /\ Commit(GetOrCreate(conversations, inflight, req.session_id), lists, inflight)
    /\ Observe(req, Error500(req.session_id, ERROR_PREFIX \o e), <<>>, TRUE, <<>>, "search")

\* search_client.search(...) or the iteration over its results raises
QuerySearchFails(req, e) ==
    /\ search_client /\ openai_client
    /\ Observe(req, Error500(req.session_id, ERROR_PREFIX \o e), <<>>, TRUE, <<>>, "search")
    /\ UNCHANGED <<conversations, lists, inflight>>

\* QueryCompletionFails with the user turn appended before the completion call.
QueryCompletionFailsAfterUserTurn(req, hits, e) ==
    /\ search_client /\ openai_client
    /\ TotalTurns <= 2 * MaxExchanges
    /\ LET convs == GetOrCreate(conversations, inflight, req.session_id)
       IN  Commit(convs,
                  [lists EXCEPT ![convs[req.session_id]] =
                      Append(Stored(req.session_id),
                             [role |-> "user", content |-> req.query])],
                  inflight)
    /\ Observe(req, Error500(req.session_id, ERROR_PREFIX \o e),
               BuildMessages(Stored(req.session_id), ContextStr(hits), req.query),
               TRUE, hits, "completion")

\* the search returns hits; openai_client.complete(...) raises
QueryCompletionFails(req, hits, e) ==
    /\ search_client /\ openai_client
    /\ Commit(GetOrCreate(conversations, inflight, req.session_id), lists, inflight)
    /\ Observe(req, Error500(req.session_id, ERROR_PREFIX \o e),
               BuildMessages(Stored(req.session_id), ContextStr(hits), req.query),
               TRUE, hits, "completion")

\* the search returns hits and the completion service answers
QuerySucceeds(req, hits, answer) ==
    /\ search_client /\ openai_client
    /\ TotalTurns <= 2 * MaxExchanges
    /\ LET convs == GetOrCreate(conversations, inflight, req.session_id)
       IN  Commit(convs,
                  [lists EXCEPT ![convs[req.session_id]] =
                      Stored(req.session_id) \o Exchange(req.query, answer)],
                  inflight)
    /\ Observe(req, QueryResponse(req.session_id, answer, Sources(hits)),
               BuildMessages(Stored(req.session_id), ContextStr(hits), req.query),
               TRUE, hits, "")

\* POST /query of main.py
Query ==
    /\ backend = "inference"
    /\ \E sarg \in SessionArgs, query \in Queries, targ \in MaxResultsArgs :
        \/ QueryUnconfigured(QueryRequest(sarg, query))
        \/ \E e \in ExcTexts : QuerySearchFails(QueryRequest(sarg, query), e)
        \/ \E hits \in SearchResults(TopOf(targ)), e \in ExcTexts :
               QueryCompletionFails(QueryRequest(sarg, query), hits, e)
        \/ \E hits \in SearchResults(TopOf(targ)), answer \in Answers :
               QuerySucceeds(QueryRequest(sarg, query), hits, answer)
    /\ UNCHANGED <<backend, env, ingest>>

\* -------------------- main_agent_framework.py: POST /query (awaits agent.run)

\* history_messages
HistoryLines(history) ==
    [i \in 1 .. Len(Window(history)) |->
        Window(history)[i].role \o ": " \o Window(history)[i].content]

\* user_message, with the previous conversation put before it
AgentUserMessage(history, context_str, query) ==
    IF HistoryLines(history) # <<>>
    THEN "Previous conversation:\n" \o Join("\n", HistoryLines(history)) \o "\n\n"
         \o UserMessage(context_str, query)
    ELSE UserMessage(context_str, query)

\* what the agent is created with and run on
AgentMessages(history, context_str, query) ==
    <<[role |-> "system", content |-> SYSTEM_INSTRUCTION],
      [role |-> "user", content |-> AgentUserMessage(history, context_str, query)]>>

\* str(e) of the HTTPException raised for a failed client construction: Starlette
\* gives "500: <detail>", and before it defined __str__, the empty text.
InitFailureTexts(e) == {"", "500: " \o AGENT_INIT_FAILED \o e}

\* if not search_client: rejected before the try block
AgentUnconfigured(req) ==
    /\ ~search_client
    /\ Observe(req, Error500(req.session_id, SEARCH_NOT_CONFIGURED), <<>>, FALSE, <<>>, "")
    /\ UNCHANGED <<conversations, lists, inflight>>

\* search_client.search(...) or the iteration over its results raises
AgentSearchFails(req, e) ==
    /\ search_client
    /\ Observe(req, Error500(req.session_id, ERROR_PREFIX \o e), <<>>, TRUE, <<>>, "search")
    /\ UNCHANGED <<conversations, lists, inflight>>

\* AzureOpenAIResponsesClient(...) raises: the HTTPException of the inner except
\* is caught by the outer except Exception and wrapped again
AgentInitFails(req, hits, text) ==
    /\ search_client
    /\ ~(env.openai_endpoint /\ env.openai_key)
    /\ Commit(GetOrCreate(conversations, inflight, req.session_id), lists, inflight)
    /\ Observe(req, Error500(req.session_id, ERROR_PREFIX \o text), <<>>, TRUE, hits, "init")

\* AgentSuspends with the user turn appended before the await.
AgentSuspendsAfterUserTurn(req, hits) ==
    /\ search_client
    /\ Len(inflight) < MaxInflight
    /\ TotalTurns \div 2 + Len(inflight) < MaxAgentExchanges
    /\ LET convs == GetOrCreate(conversations, inflight, req.session_id)
       IN  Commit(convs,
                  [lists EXCEPT ![convs[req.session_id]] =
                      Append(Stored(req.session_id),
                             [role |-> "user", content |-> req.query])],
                  Append(inflight, [session_id |-> req.session_id, query |-> req.query,
                                    sources |-> Sources(hits),
                                    ref |-> convs[req.session_id]]))
    /\ Observe(req, NoResponse,
               AgentMessages(Stored(req.session_id), ContextStr(hits), req.query),
               TRUE, hits, "")

\* AgentSuspends with the list of a new session kept by the request alone, the
\* dict getting its entry only when the request finishes.
AgentSuspendsWithoutEntry(req, hits) ==
    /\ search_client
    /\ Len(inflight) < MaxInflight
    /\ TotalTurns \div 2 + Len(inflight) < MaxAgentExchanges
    /\ Commit(conversations, lists,
              Append(inflight,
                     [session_id |-> req.session_id, query |-> req.query,
                      sources |-> Sources(hits),
                      ref |-> GetOrCreate(conversations, inflight,
                                          req.session_id)[req.session_id]]))
    /\ Observe(req, NoResponse,
               AgentMessages(Stored(req.session_id), ContextStr(hits), req.query),
               TRUE, hits, "")

\* the handler reaches result = await agent.run(user_message) and is suspended
AgentSuspends(req, hits) ==
    /\ search_client
    /\ Len(inflight) < MaxInflight
    /\ TotalTurns \div 2 + Len(inflight) < MaxAgentExchanges
    /\ LET convs == GetOrCreate(conversations, inflight, req.session_id)
       IN  Commit(convs, lists,
                  Append(inflight, [session_id |-> req.session_id, query |-> req.query,
                                    sources |-> Sources(hits),
                                    ref |-> convs[req.session_id]]))
    /\ Observe(req, NoResponse,
               AgentMessages(Stored(req.session_id), ContextStr(hits), req.query),
               TRUE, hits, "")

\* POST /query of main_agent_framework.py, up to the await
QueryStart ==
    /\ backend = "agent"
    /\ \E sarg \in SessionArgs, query \in Queries :
        \/ AgentUnconfigured(QueryRequest(sarg, query))
        \/ \E e \in ExcTexts : AgentSearchFails(QueryRequest(sarg, query), e)
        \/ \E hits \in AgentResults, e \in ExcTexts :
               \E text \in InitFailureTexts(e) :
                   AgentInitFails(QueryRequest(sarg, query), hits, text)
        \/ \E hits \in AgentResults : AgentSuspends(QueryRequest(sarg, query), hits)
    /\ UNCHANGED <<backend, env, ingest>>

\* The suspended requests but the r-th.
Others(r) == SubSeq(inflight, 1, r - 1) \o SubSeq(inflight, r + 1, Len(inflight))

\* the request the r-th suspended handler works on
Resumed(r) == [session_id |-> inflight[r].session_id, query |-> inflight[r].query]

\* AgentRunFails with the question kept in the conversation.
AgentRunFailsKeepsUserTurn(r, e) ==
    /\ Commit(conversations,
              [lists EXCEPT ![inflight[r].ref] =
                  Append(@, [role |-> "user", content |-> inflight[r].query])],
              Others(r))
    /\ Observe(Resumed(r), Error500(inflight[r].session_id, ERROR_PREFIX \o e),
               <<>>, FALSE, <<>>, "completion")

\* agent.run raises: the request ends in the except clause
AgentRunFails(r, e) ==
    /\ Commit(conversations, lists, Others(r))
    /\ Observe(Resumed(r), Error500(inflight[r].session_id, ERROR_PREFIX \o e),
               <<>>, FALSE, <<>>, "completion")

\* conversations[request.session_id] = conversation_history
Assign(convs, sid, ref) ==
    [s \in DOMAIN convs \cup {sid} |-> IF s = sid THEN ref ELSE convs[s]]

\* agent.run returns: the two appends, then the assignment to the dict
AgentRunReturns(r, answer) ==
    /\ Commit(Assign(conversations, inflight[r].session_id, inflight[r].ref),
              [lists EXCEPT ![inflight[r].ref] = @ \o Exchange(inflight[r].query, answer)],
              Others(r))
    /\ Observe(Resumed(r),
               QueryResponse(inflight[r].session_id, answer, inflight[r].sources),
               <<>>, FALSE, <<>>, "")

\* POST /query of main_agent_framework.py, from the await on
QueryFinish ==
    /\ backend = "agent"
    /\ \E r \in 1 .. Len(inflight) :
        \/ \E e \in ExcTexts : AgentRunFails(r, e)
        \/ \E answer \in Answers : AgentRunReturns(r, answer)
    /\ UNCHANGED <<backend, env, ingest>>

\* --------------------------------- DELETE and GET /conversation/{session_id}

\* Delete that empties the whole dict.
DeleteAll(convs, sid) == << >>

\* Delete that leaves the entry in the dict.
DeleteNothing(convs, sid) == convs

\* del conversations[session_id]
Delete(convs, sid) == [s \in DOMAIN convs \ {sid} |-> convs[s]]

\* the body of the DELETE response
ClearMessage(existed, sid) ==
    IF existed THEN "Conversation history cleared for session " \o sid
    ELSE "No conversation found for session " \o sid

\* ClearConversation answering 404 for a session that has no entry.
ClearConversationStrict ==
    \E sid \in Sessions :
        /\ Commit(Delete(conversations, sid), lists, inflight)
        /\ Observe(PathRequest(sid),
                   [NoResponse EXCEPT
                       !.op = "clear",
                       !.status = IF sid \in DOMAIN conversations THEN 200 ELSE 404,
                       !.session_id = sid,
                       !.message = ClearMessage(sid \in DOMAIN conversations, sid)],
                   <<>>, FALSE, <<>>, "")
        /\ UNCHANGED <<backend, env, ingest>>

\* DELETE /conversation/{session_id}
ClearConversation ==
    \E sid \in Sessions :
        /\ Commit(Delete(conversations, sid), lists, inflight)
        /\ Observe(PathRequest(sid),
                   [NoResponse EXCEPT
                       !.op = "clear", !.status = 200, !.session_id = sid,
                       !.message = ClearMessage(sid \in DOMAIN conversations, sid)],
                   <<>>, FALSE, <<>>, "")
        /\ UNCHANGED <<backend, env, ingest>>

\* GET /conversation/{session_id}
GetConversation ==
    \E sid \in Sessions :
        /\ Observe(PathRequest(sid),
                   [NoResponse EXCEPT !.op = "get", !.status = 200, !.session_id = sid,
                                      !.messages = Stored(sid)],
                   <<>>, FALSE, <<>>, "")
        /\ UNCHANGED <<backend, env, conversations, lists, inflight, ingest>>

\* GET / of main.py
Root ==
    /\ backend = "inference"
    /\ Observe(PathRequest(""),
               [NoResponse EXCEPT
                   !.op = "health", !.status = 200,
                   !.health = [message |-> "RAG Backend API is running",
                               status |-> "healthy",
                               search_configured |-> search_client,
                               openai_configured |-> openai_client]],
               <<>>, FALSE, <<>>, "")
    /\ UNCHANGED <<backend, env, conversations, lists, inflight, ingest>>

\* GET / of main_agent_framework.py
AgentRoot ==
    /\ backend = "agent"
    /\ Observe(PathRequest(""),
               [NoResponse EXCEPT
                   !.op = "health", !.status = 200,
                   !.health = [message |-> "RAG Backend API with Agent Framework is running",
                               status |-> "healthy",
                               search_configured |-> search_client,
                               agent_framework_configured |-> TRUE]],
               <<>>, FALSE, <<>>, "")
    /\ UNCHANGED <<backend, env, conversations, lists, inflight, ingest>>

Next == Query \/ ClearConversation \/ GetConversation \/ Root

Spec == Init /\ [][Next]_vars

\* The environments the Agent-Framework backend is run in: every credential
\* set, the search key missing, the Azure OpenAI key missing.
AgentEnvs ==
    {e \in Envs : e.search_endpoint /\ e.openai_endpoint /\ (e.search_key \/ e.openai_key)}

InitAgent == backend = "agent" /\ env \in AgentEnvs /\ InitStore /\ ingest = NotIngesting

NextAgent == QueryStart \/ QueryFinish \/ ClearConversation \/ GetConversation \/ AgentRoot

SpecAgent == InitAgent /\ [][NextAgent]_vars

InitBoth == Init \/ InitAgent

NextBoth ==
    \/ Query \/ QueryStart \/ QueryFinish
    \/ ClearConversation \/ GetConversation
    \/ Root \/ AgentRoot

SpecBoth == InitBoth /\ [][NextBoth]_vars

\* The session no DELETE is issued for in the runs of SpecNoClear.
NeverCleared == "default"

\* DELETE /conversation/{session_id} for a session other than NeverCleared
ClearOtherConversation == ClearConversation /\ response'.session_id # NeverCleared

NextNoClear ==
    \/ Query \/ QueryStart \/ QueryFinish
    \/ ClearOtherConversation \/ GetConversation
    \/ Root \/ AgentRoot

\* Either backend, with no DELETE issued for the session NeverCleared.
SpecNoClear == InitBoth /\ [][NextNoClear]_vars

\* ------------------------------------------------ ingest.py: one run of main()

\* INDEX_NAME, when AZURE_SEARCH_INDEX_NAME is not set
INDEX_NAME == "documents-index"

CREDENTIALS_ERROR ==
    "Error: Azure Search credentials not configured. "
    \o "Please set AZURE_SEARCH_ENDPOINT and AZURE_SEARCH_KEY in .env file."

\* The *.txt files the Data directory may hold. decodes: whether the bytes of
\* the file are UTF-8, so that open(file_path, 'r', encoding='utf-8').read()
\* returns its content instead of raising.
DataFiles ==
    {[name |-> "a.txt", content |-> "alpha", decodes |-> TRUE],
     [name |-> "b.c.txt", content |-> "", decodes |-> TRUE],
     [name |-> "d.txt", content |-> "", decodes |-> FALSE]}

\* What data_path.glob("*.txt") may yield: the files of the directory, in the
\* order the file system lists them.
Globs ==
    {g \in UNION {[1 .. n -> DataFiles] : n \in 0 .. MaxFiles} :
        \A i, j \in DOMAIN g : i # j => g[i].name # g[j].name}

\* str(n) of a count below ten
Str(n) == SubSeq("0123456789", n + 1, n + 1)

\* str(b) of a bool
StrBool(b) == IF b THEN "True" ELSE "False"

\* file_path.stem of a name that matches *.txt
Stem(name) == SubSeq(name, 1, Len(name) - Len(".txt"))

\* the record read_documents builds of one file
Document(file) ==
    [id |-> Stem(file.name), filename |-> file.name, content |-> file.content]

\* main() goes on at pc, holding documents, having made calls and printed lines.
Proceed(pc, documents, calls, lines) ==
    ingest' = [ingest EXCEPT !.pc = pc, !.documents = documents,
                             !.calls = @ \o calls, !.printed = @ \o lines]

\* main(), up to the clients: the credentials are validated
MainStart ==
    /\ ingest.pc = "main"
    /\ IF ~env.search_endpoint \/ ~env.search_key
       THEN Proceed("returned", <<>>, <<>>, <<"Starting data ingestion...", CREDENTIALS_ERROR>>)
       ELSE Proceed("create_index", <<>>, <<>>, <<"Starting data ingestion...">>)

\* index_client.create_index(index) returns
CreateIndexReturns ==
    Proceed("read_documents", <<>>,
            <<[op |-> "create_index", index |-> INDEX_NAME, raised |-> ""]>>,
            <<"Index '" \o INDEX_NAME \o "' created successfully.">>)

\* CreateIndexRaises with the exception leaving create_index and main.
CreateIndexRaisesUncaught(e) ==
    Proceed("raised", <<>>,
            <<[op |-> "create_index", index |-> INDEX_NAME, raised |-> e]>>,
            <<>>)

\* index_client.create_index(index) raises: the except clause prints and returns
CreateIndexRaises(e) ==
    Proceed("read_documents", <<>>,
            <<[op |-> "create_index", index |-> INDEX_NAME, raised |-> e]>>,
            <<"Index '" \o INDEX_NAME \o "' already exists or error occurred: " \o e>>)

\* create_index(index_client)
CreateIndex ==
    /\ ingest.pc = "create_index"
    /\ \/ CreateIndexReturns
       \/ \E e \in ExcTexts : CreateIndexRaises(e)

\* read_documents(data_dir), and main()'s test of what it returns
ReadDocuments ==
    /\ ingest.pc = "read_documents"
    /\ \/ /\ \E i \in 1 .. Len(ingest.data) : ~ingest.data[i].decodes
          /\ Proceed("raised", <<>>, <<>>, <<>>)
       \/ /\ \A i \in 1 .. Len(ingest.data) : ingest.data[i].decodes
          /\ LET documents == [i \in 1 .. Len(ingest.data) |-> Document(ingest.data[i])]
             IN  IF documents = <<>>
                 THEN Proceed("returned", documents, <<>>,
                              <<"No documents found in Data directory.">>)
                 ELSE Proceed("upload_documents", documents, <<>>,
                              <<"Found " \o Str(Len(documents)) \o " documents to ingest.">>)

\* search_client.upload_documents(documents=documents) returns one result per
\* document, each succeeded or not
UploadReturns(succeeded) ==
    Proceed("returned", ingest.documents,
            <<[op |-> "upload_documents", documents |-> ingest.documents,
               succeeded |-> succeeded, raised |-> ""]>>,
            <<"Uploaded " \o Str(Len(ingest.documents)) \o " documents successfully.">>
            \o [i \in 1 .. Len(ingest.documents) |->
                   "  - " \o ingest.documents[i].id \o ": " \o StrBool(succeeded[i])]
            \o <<"Data ingestion completed.">>)

\* search_client.upload_documents(documents=documents) raises
UploadRaises(e) ==
    Proceed("returned", ingest.documents,
            <<[op |-> "upload_documents", documents |-> ingest.documents,
               succeeded |-> <<>>, raised |-> e]>>,
            <<"Error uploading documents: " \o e, "Data ingestion completed.">>)

\* upload_documents(search_client, documents), and the end of main()
UploadDocuments ==
    /\ ingest.pc = "upload_documents"
    /\ \/ \E succeeded \in [1 .. Len(ingest.documents) -> BOOLEAN] : UploadReturns(succeeded)
       \/ \E e \in ExcTexts : UploadRaises(e)

\* python ingest.py, with any credentials and any Data directory
InitIngest ==
    /\ backend = "ingest"
    /\ env \in Envs
    /\ InitStore
    /\ ingest \in {[NotIngesting EXCEPT !.pc = "main", !.data = g] : g \in Globs}

NextIngest ==
    /\ backend = "ingest"
    /\ MainStart \/ CreateIndex \/ ReadDocuments \/ UploadDocuments
    /\ UNCHANGED <<backend, env, conversations, lists, inflight,
                   request, response, sent, searched, found, failed>>

SpecIngest == InitIngest /\ [][NextIngest]_vars

\* ------------------------------------------------------------------ claims

\* C1, as stated: a query whose completion call fails returns 500 and leaves the
\* whole store as it was, the set of session ids that have an entry included.
C1_StoreIdenticalAfterGenerationFailure ==
    [][failed' = "completion" =>
          /\ response'.status = 500
          /\ DOMAIN conversations' = DOMAIN conversations
          /\ \A s \in Sessions :
                 Read(conversations', lists', s) = Read(conversations, lists, s)]_vars

\* C1, amended: a query whose completion call fails returns 500 and appends no
\* turn: what GET /conversation returns is the same for every session after
\* each of its steps (the step up to the completion call, the step that fails),
\* and all it may add to the store is an empty entry for its own session.
C1_NoTurnAfterGenerationFailure ==
    [][(failed' = "completion" \/ Len(inflight') > Len(inflight)) =>
          /\ failed' = "completion" => response'.op = "query" /\ response'.status = 500
          /\ \A s \in Sessions :
                 Read(conversations', lists', s) = Read(conversations, lists, s)
          /\ DOMAIN conversations \subseteq DOMAIN conversations'
          /\ DOMAIN conversations' \subseteq DOMAIN conversations \cup {request'.session_id}]_vars

\* A completion call has failed for a session that holds turns.
C1_Witness ==
    /\ failed = "completion"
    /\ response.status = 500
    /\ Len(Stored(request.session_id)) >= 2

\* C2: a query whose search raises returns 500, hands nothing to the completion
\* service (and suspends no request on it), and leaves the store untouched.
C2_SearchFailureLeavesStore ==
    [][failed' = "search" =>
          /\ response'.op = "query" /\ response'.status = 500
          /\ sent' = <<>>
          /\ inflight' = inflight
          /\ conversations' = conversations
          /\ lists' = lists]_vars

\* The search has failed for a session that holds turns.
C2_Witness ==
    /\ failed = "search"
    /\ response.status = 500
    /\ sent = <<>>
    /\ Len(Stored(request.session_id)) >= 2

\* C3, as stated: the history put into the prompt is the last 10 stored turns of
\* the session, oldest first, or all of them when fewer than 10 are stored.
C3_LastTenTurns ==
    [][(backend = "inference" /\ sent' # <<>>) =>
          LET history == Read(conversations, lists, request'.session_id)
              recent  == SubSeq(history, Max(1, Len(history) - 9), Len(history))
          IN  /\ Len(sent') = Len(recent) + 2
              /\ \A i \in 1 .. Len(recent) : sent'[i + 1] = HistoryMessage(recent[i])]_vars

\* C4: a successful query of main.py leaves the session's conversation as it was
\* followed by the user turn (the question) and the assistant turn (the answer),
\* the response names the request's session, and a GET that follows returns the
\* whole conversation, ending in that exchange.
C4_ExchangeAppended ==
    [][/\ (response'.op = "query" /\ response'.status = 200) =>
              /\ Read(conversations', lists', request'.session_id)
                     = Read(conversations, lists, request'.session_id)
                       \o <<[role |-> "user", content |-> request'.query],
                            [role |-> "assistant", content |-> response'.answer]>>
              /\ response'.session_id = request'.session_id
       /\ (/\ response.op = "query" /\ response.status = 200
           /\ response'.op = "get" /\ response'.session_id = response.session_id) =>
              /\ response'.messages = Stored(response.session_id)
              /\ Len(response'.messages) >= 2
              /\ SubSeq(response'.messages, Len(response'.messages) - 1,
                        Len(response'.messages))
                     = <<[role |-> "user", content |-> request.query],
                         [role |-> "assistant", content |-> response.answer]>>]_vars

\* A query has succeeded in a session that held an exchange before it.
C4_Witness ==
    /\ backend = "inference"
    /\ response.op = "query" /\ response.status = 200
    /\ Len(Stored(response.session_id)) >= 4

\* C5: the messages main.py hands to the completion service are the system
\* instruction, then one message per turn of the history window, oldest first (a
\* user turn as a user message, any other as a system message "Assistant: " +
\* content), then the user message built from the context and the question; so a
\* query that follows a successful one in the same session carries that question
\* and that answer, in that order, right before its last message.
C5_MessageSequence ==
    [][(backend = "inference" /\ sent' # <<>>) =>
          LET history == Read(conversations, lists, request'.session_id)
              skipped == Max(0, Len(history) - HISTORY_WINDOW)
              n       == Len(sent')
          IN  /\ n = Len(history) - skipped + 2
              /\ sent'[1] = [role |-> "system", content |-> SYSTEM_INSTRUCTION]
              /\ \A i \in 1 .. n - 2 :
                     sent'[i + 1] =
                         IF history[skipped + i].role = "user"
                         THEN [role |-> "user", content |-> history[skipped + i].content]
                         ELSE [role |-> "system",
                               content |-> "Assistant: " \o history[skipped + i].content]
              /\ sent'[n] = [role |-> "user",
                             content |-> "Context:\n" \o ContextStr(found')
                                         \o "\n\nQuestion: " \o request'.query]
              /\ (/\ response.op = "query" /\ response.status = 200
                  /\ request'.session_id = response.session_id) =>
                     /\ n >= 4
                     /\ sent'[n - 2] = [role |-> "user", content |-> request.query]
                     /\ sent'[n - 1] = [role |-> "system",
                                        content |-> "Assistant: " \o response.answer]]_vars

\* A query has succeeded whose prompt carried a full window of history.
C5_Witness ==
    /\ backend = "inference"
    /\ response.op = "query" /\ response.status = 200
    /\ Len(sent) = HISTORY_WINDOW + 2

\* C6, as stated: a query to a backend whose search client or completion client
\* is not configured is rejected with 500 and a fixed configuration message,
\* before any search or completion call and with the store untouched.
C6_ConfigurationRejectedFirst ==
    [][(/\ response'.op = "query"
        /\ \/ ~search_client
           \/ backend = "inference" /\ ~openai_client
           \/ backend = "agent" /\ failed' = "init") =>
          /\ response'.status = 500
          /\ \/ response'.detail \in {SEARCH_NOT_CONFIGURED, OPENAI_NOT_CONFIGURED}
             \/ /\ Len(response'.detail) >= Len(AGENT_INIT_FAILED)
                /\ SubSeq(response'.detail, 1, Len(AGENT_INIT_FAILED)) = AGENT_INIT_FAILED
          /\ ~searched'
          /\ sent' = <<>>
          /\ conversations' = conversations
          /\ lists' = lists]_vars

\* C7: DELETE and GET for a session that has no entry answer 200 and leave the
\* store as it is, GET with an empty message list; and a second DELETE of the
\* same session leaves the store as the first one left it.
C7_MissingSessionIsEmpty ==
    [][/\ (response'.op \in {"clear", "get"}
           /\ request'.session_id \notin DOMAIN conversations) =>
              /\ response'.status = 200
              /\ response'.op = "get" => response'.messages = <<>>
              /\ conversations' = conversations
              /\ lists' = lists
       /\ (/\ response.op = "clear" /\ response'.op = "clear"
           /\ response'.session_id = response.session_id) =>
              /\ response'.status = 200
              /\ conversations' = conversations
              /\ lists' = lists]_vars

\* A DELETE has found no conversation for its session while another is stored.
C7_Witness ==
    /\ response.op = "clear" /\ response.status = 200
    /\ response.message = "No conversation found for session s1"
    /\ Len(Stored("default")) >= 2

\* C8: a DELETE answers 200 whether or not the session had an entry, and the GET
\* for the same session that follows it returns no messages.
C8_ClearThenGetIsEmpty ==
    [][/\ response'.op = "clear" => response'.status = 200
       /\ (/\ response.op = "clear" /\ response'.op = "get"
           /\ response'.session_id = response.session_id) =>
              response'.messages = <<>>]_vars

\* A DELETE has cleared a session that had a conversation.
C8_Witness ==
    /\ response.op = "clear" /\ response.status = 200
    /\ response.message = "Conversation history cleared for session s1"
    /\ Stored("s1") = <<>>
    /\ Len(Stored("default")) >= 2

\* C9: when the search returns no hit, the query of main.py goes on to the
\* completion call with the context "No relevant documents found.", and when the
\* call answers it returns 200 with no sources and stores the exchange; with
\* hits, the context is their contents in retrieval order, a blank line between.
C9_ZeroHitsIsNoError ==
    (backend = "inference" /\ searched /\ failed # "search") =>
        LET content(i) == IF "content" \in DOMAIN found[i] THEN found[i].content ELSE ""
            joined[i \in 1 .. Len(found)] ==
                IF i = 1 THEN content(1) ELSE joined[i - 1] \o "\n\n" \o content(i)
            context == IF Len(found) = 0 THEN "No relevant documents found."
                       ELSE joined[Len(found)]
        IN  /\ sent # <<>>
            /\ sent[Len(sent)].content
                   = "Context:\n" \o context \o "\n\nQuestion: " \o request.query
            /\ failed = "" =>
                   /\ response.status = 200
                   /\ Len(response.sources) = Len(found)
                   /\ Len(Stored(request.session_id)) >= 2
                   /\ SubSeq(Stored(request.session_id),
                             Len(Stored(request.session_id)) - 1,
                             Len(Stored(request.session_id)))
                          = <<[role |-> "user", content |-> request.query],
                              [role |-> "assistant", content |-> response.answer]>>

\* A query whose search returned no hit has been answered.
C9_Witness ==
    /\ backend = "inference"
    /\ response.op = "query" /\ response.status = 200
    /\ searched /\ found = <<>>
    /\ response.sources = <<>>

\* C10: the sources of a query response are one per hit, in retrieval order, each
\* holding the first min(len, 200) characters of the hit's content and then
\* "...", whatever the length: min(len, 200) + 3 characters.
C10_SourcePreview ==
    (backend = "inference" /\ response.op = "query" /\ response.status = 200) =>
        /\ Len(response.sources) = Len(found)
        /\ \A i \in 1 .. Len(found) :
               LET content == IF "content" \in DOMAIN found[i] THEN found[i].content ELSE ""
                   kept    == IF Len(content) < 200 THEN Len(content) ELSE 200
                   preview == response.sources[i].content
               IN  /\ Len(preview) = kept + 3
                   /\ SubSeq(preview, 1, kept) = SubSeq(content, 1, kept)
                   /\ SubSeq(preview, kept + 1, kept + 3) = "..."

\* A response carries the sources of a hit longer than 200 characters and of a
\* shorter one.
C10_Witness ==
    /\ backend = "inference"
    /\ response.op = "query" /\ response.status = 200
    /\ found = <<DocLong, DocShort>>
    /\ Len(response.sources) = 2

\* C11, as stated: two requests for the same session that are in flight at the
\* same time can interleave their appends: whenever two requests for one session
\* are suspended at the completion call, a step can follow that leaves the
\* session with turns of the two requests interleaved, a user turn that is not
\* immediately followed by an assistant turn.
C11_TurnsInterleave ==
    \A a, b \in 1 .. Len(inflight) :
        (a # b /\ inflight[a].session_id = inflight[b].session_id) =>
            ENABLED <<NextBoth
                      /\ LET after == Read(conversations', lists', inflight[a].session_id)
                         IN  \E i \in 1 .. Len(after) :
                                 /\ after[i].role = "user"
                                 /\ IF i = Len(after) THEN TRUE
                                    ELSE after[i + 1].role # "assistant">>_vars

\* C11, amended: two requests for the same session that are in flight at the
\* same time finish in either order, and the one that finishes appends its two
\* turns in one step: right after it the session's conversation ends with its own
\* user turn and assistant turn, has even length and no two neighbouring turns of
\* the same role, whatever the request still suspended does later.
C11_ExchangesWholeInCompletionOrder ==
    [][(/\ response'.op = "query" /\ response'.status = 200
        /\ \E a, b \in 1 .. Len(inflight) :
               /\ a # b
               /\ inflight[a].session_id = request'.session_id
               /\ inflight[b].session_id = request'.session_id) =>
          LET after == Read(conversations', lists', request'.session_id)
          IN  /\ Len(after) >= 2
              /\ Len(after) % 2 = 0
              /\ SubSeq(after, Len(after) - 1, Len(after))
                     = <<[role |-> "user", content |-> request'.query],
                         [role |-> "assistant", content |-> response'.answer]>>
              /\ \A i \in 1 .. Len(after) - 1 : after[i].role # after[i + 1].role]_vars

\* A request has been answered while another request for the same session and
\* another question is still suspended, and its exchange is stored.
C11_Witness ==
    /\ backend = "agent"
    /\ response.op = "query" /\ response.status = 200
    /\ \E i \in 1 .. Len(inflight) :
           /\ inflight[i].session_id = request.session_id
           /\ inflight[i].query # request.query
    /\ Stored(request.session_id)
           = <<[role |-> "user", content |-> request.query],
               [role |-> "assistant", content |-> response.answer]>>

\* C12, as stated: whatever credentials are present, GET / answers 200 and
\* reports each component as configured exactly when its endpoint and its key
\* are both set, and POST /query is rejected for configuration exactly when a
\* component is reported as not configured: never when both are reported as
\* configured, always when one is not.
C12_HealthReportsConfiguration ==
    LET completion == IF "openai_configured" \in DOMAIN response.health
                      THEN response.health.openai_configured
                      ELSE response.health.agent_framework_configured
        configuration == \/ response.detail \in {SEARCH_NOT_CONFIGURED, OPENAI_NOT_CONFIGURED}
                         \/ failed = "init"
    IN  /\ response.op = "health" =>
              /\ response.status = 200
              /\ response.health.search_configured = (env.search_endpoint /\ env.search_key)
              /\ completion = (env.openai_endpoint /\ env.openai_key)
        /\ response.op = "query" =>
              /\ ~(search_client /\ env.openai_endpoint /\ env.openai_key) =>
                     response.status = 500 /\ configuration
              /\ (search_client /\ env.openai_endpoint /\ env.openai_key) => ~configuration

C14_ClearedTurnsStayCleared ==
    [][(/\ response.op = "clear"
        /\ response'.op = "query" /\ response'.status = 200
        /\ request'.session_id = response.session_id) =>
          Read(conversations', lists', request'.session_id)
              = <<[role |-> "user", content |-> request'.query],
                  [role |-> "assistant", content |-> response'.answer]>>]_vars

\* C15: under any sequence and interleaving of query, clear and read requests,
\* every stored conversation has even length and alternates user, assistant, ...
\* from a user turn; and a step changes a conversation only by emptying it (a
\* DELETE of that session) or by making it a conversation that existed followed
\* by the user turn and the assistant turn of the one request the step answers,
\* so that every assistant turn stands right after the user turn of its request.
C15_StrictAlternation ==
    [][\A s \in Sessions :
          LET before == Read(conversations, lists, s)
              after  == Read(conversations', lists', s)
          IN  /\ Len(after) % 2 = 0
              /\ \A i \in 1 .. Len(after) :
                     after[i].role = IF i % 2 = 1 THEN "user" ELSE "assistant"
              /\ \/ after = before
                 \/ /\ after = <<>>
                    /\ response'.op = "clear" /\ response'.session_id = s
                 \/ /\ response'.op = "query" /\ response'.status = 200
                    /\ request'.session_id = s
                    /\ Len(after) >= 2
                    /\ SubSeq(after, Len(after) - 1, Len(after))
                           = <<[role |-> "user", content |-> request'.query],
                               [role |-> "assistant", content |-> response'.answer]>>
                    /\ SubSeq(after, 1, Len(after) - 2)
                           \in {<<>>} \cup {lists[id] : id \in ListIds}]_vars

\* Two requests of the Agent-Framework backend with different questions have
\* been answered in one session, which holds their two exchanges.
C15_Witness ==
    /\ backend = "agent"
    /\ response.op = "query" /\ response.status = 200
    /\ Len(Stored(request.session_id)) = 4
    /\ Stored(request.session_id)[1].content # Stored(request.session_id)[3].content

\* C16: while no DELETE is issued for a session, no exchange of it is lost: a
\* step that answers 200 to a query for the session leaves its conversation as
\* it was followed by that request's user turn and assistant turn, whatever
\* other requests for the session are suspended or have finished meanwhile, and
\* no other step changes it; so the conversation holds the two turns of every
\* answered query, 2 times their number in all.
C16_NoExchangeLost ==
    [][LET before == Read(conversations, lists, NeverCleared)
           after  == Read(conversations', lists', NeverCleared)
       IN  IF /\ response'.op = "query" /\ response'.status = 200
              /\ request'.session_id = NeverCleared
           THEN after = before \o <<[role |-> "user", content |-> request'.query],
                                    [role |-> "assistant", content |-> response'.answer]>>
           ELSE after = before]_vars

\* Two requests raced on a session that had no entry, the first to finish has
\* been answered and the other, still suspended, holds the list the dict holds.
C16_Witness ==
    /\ backend = "agent"
    /\ response.op = "query" /\ response.status = 200
    /\ request.session_id = NeverCleared
    /\ Len(Stored(NeverCleared)) = 2
    /\ Len(inflight) = 1
    /\ inflight[1].session_id = NeverCleared
    /\ inflight[1].ref = conversations[NeverCleared]

\* C17: a query (answered, failed or suspended), a DELETE or a GET for a
\* session leaves the conversation of every other session as it was; the
\* history in a prompt is the last turns stored under the request's own
\* session, in both backends; and a query that gives no session_id works on the
\* session "default".
C17_SessionsIsolated ==
    [][/\ \A t \in Sessions :
              (response'.op # "health" /\ t # request'.session_id) =>
                  Read(conversations', lists', t) = Read(conversations, lists, t)
       /\ ("given" \in DOMAIN request' /\ request'.given = "<omitted>") =>
              request'.session_id = "default"
       /\ sent' # <<>> =>
              LET history == Read(conversations, lists, request'.session_id)
                  skipped == IF Len(history) > 5 THEN Len(history) - 5 ELSE 0
                  n       == Len(history) - skipped
                  line(i) == history[skipped + i].role \o ": " \o history[skipped + i].content
                  lines[i \in 0 .. n] ==
                      IF i = 0 THEN ""
                      ELSE IF i = 1 THEN line(1)
                      ELSE lines[i - 1] \o "\n" \o line(i)
                  question == "Context:\n" \o ContextStr(found')
                              \o "\n\nQuestion: " \o request'.query
              IN  IF backend = "inference"
                  THEN /\ Len(sent') = n + 2
                       /\ \A i \in 1 .. n :
                              sent'[i + 1].content =
                                  IF history[skipped + i].role = "user"
                                  THEN history[skipped + i].content
                                  ELSE "Assistant: " \o history[skipped + i].content
                  ELSE /\ Len(sent') = 2
                       /\ sent'[2].content =
                              IF n = 0 THEN question
                              ELSE "Previous conversation:\n" \o lines[n] \o "\n\n" \o question]_vars

\* A query with no session_id has been answered from the history of "default"
\* while the session "s1" holds a conversation of another length.
C17_Witness ==
    /\ response.op = "query" /\ response.status = 200
    /\ "given" \in DOMAIN request /\ request.given = "<omitted>"
    /\ Len(sent) >= 4
    /\ Len(Stored("default")) >= 4
    /\ Len(Stored("s1")) = 2

====
